---- MODULE Spec2Model ----
(***************************************************************************)
(* The physics engine of nbody (src/src/galaxy.rs): create_suns,           *)
(* elastic_collision and update_vel_and_pos, with the trace buffer.        *)
(*                                                                         *)
(* Numbers.  The program computes in f32.  The properties checked here are *)
(* stated in exact arithmetic, so an f32 is modelled as an exact rational  *)
(* <<n, d>> in lowest terms (d > 0).  NaN == <<0, 0>> stands for every     *)
(* value the model cannot hold exactly: a division by zero, the square     *)
(* root of a non-square, and a numerator or denominator beyond Limit.  NaN *)
(* propagates through every operation and compares false, as in f32.       *)
(***************************************************************************)
EXTENDS Integers, Sequences, FiniteSets, TLC

VARIABLES
    actors,     \* the Vec<Actor> owned by MainState.suns (game.rs:24)
    ticks,      \* history: number of completed calls of update_vel_and_pos
    snapshot,   \* history: actors as they were when the current/last call began
    pc,         \* position inside update_vel_and_pos: "idle" | "pairs"
    pair,       \* index of the next pair of the tuple_combinations loop
    dtv,        \* the dt argument of the call in progress
    vafter      \* result of the last direct call of elastic_collision

vars == <<actors, ticks, snapshot, pc, pair, dtv, vafter>>

----------------------------------------------------------------------------
(* Bounds of the model *)

Limit == 1000000000      \* largest numerator/denominator held exactly
MaxBodies == 3           \* largest num passed to create_suns
MaxTicks == 3            \* calls of update_vel_and_pos explored by Spec
MaxIdDraw == 2           \* ids are drawn from 1..MaxIdDraw instead of all of u32
RadiusScale == 10        \* radii are held to 1/RadiusScale
ExtraTicks == 25         \* calls explored by SpecTrace beyond TRACE_LEN * TRACE_EVERY

----------------------------------------------------------------------------
(* Exact rationals *)

NaN == <<0, 0>>

IsNaN(q) == q[2] = 0

Abs(n) == IF n < 0 THEN -n ELSE n

RECURSIVE Gcd(_, _)
Gcd(a, b) == IF b = 0 THEN a ELSE Gcd(b, a % b)

\* n/d in lowest terms, d > 0; NaN when d = 0 or out of range
Rat(n, d) ==
    IF d = 0 THEN NaN
    ELSE LET g == Gcd(Abs(n), Abs(d))
             s == IF d < 0 THEN -1 ELSE 1
             nn == s * (n \div g)
             dd == s * (d \div g)
         IN  IF Abs(nn) > Limit \/ dd > Limit THEN NaN ELSE <<nn, dd>>

Zero == <<0, 1>>
One == <<1, 1>>

\* a * b, or Limit + 1 when the product leaves the range
SafeMul(a, b) ==
    IF a = 0 \/ b = 0 THEN 0
    ELSE IF Abs(a) > Limit \div Abs(b) THEN Limit + 1
    ELSE a * b

RNeg(q) == IF IsNaN(q) THEN NaN ELSE <<-q[1], q[2]>>

RAdd(p, q) ==
    IF IsNaN(p) \/ IsNaN(q) THEN NaN
    ELSE LET g == Gcd(p[2], q[2])
             pd == p[2] \div g
             qd == q[2] \div g
             x == SafeMul(p[1], qd)
             y == SafeMul(q[1], pd)
             d == SafeMul(pd, q[2])
         IN  IF Abs(x) > Limit \/ Abs(y) > Limit \/ d > Limit THEN NaN
             ELSE Rat(x + y, d)

RSub(p, q) == RAdd(p, RNeg(q))

RMul(p, q) ==
    IF IsNaN(p) \/ IsNaN(q) THEN NaN
    ELSE IF p[1] = 0 \/ q[1] = 0 THEN Zero
    ELSE LET g1 == Gcd(Abs(p[1]), q[2])
             g2 == Gcd(Abs(q[1]), p[2])
             n == SafeMul(p[1] \div g1, q[1] \div g2)
             d == SafeMul(p[2] \div g2, q[2] \div g1)
         IN  IF Abs(n) > Limit \/ d > Limit THEN NaN ELSE <<n, d>>

RInv(q) ==
    IF IsNaN(q) \/ q[1] = 0 THEN NaN
    ELSE IF q[1] < 0 THEN <<-q[2], -q[1]>> ELSE <<q[2], q[1]>>

RDiv(p, q) == RMul(p, RInv(q))

\* a/b < c/d for b, d > 0, by continued fractions (no product is formed)
RECURSIVE FracLess(_, _, _, _)
FracLess(a, b, c, d) ==
    LET qa == a \div b
        qc == c \div d
        ra == a % b
        rc == c % d
    IN  IF qa # qc THEN qa < qc
        ELSE IF rc = 0 THEN FALSE
        ELSE IF ra = 0 THEN TRUE
        ELSE FracLess(d, rc, b, ra)

\* f32 `<`: false when either side is NaN
RLt(p, q) == ~IsNaN(p) /\ ~IsNaN(q) /\ FracLess(p[1], p[2], q[1], q[2])

\* largest k in 0..hi with k*k <= n
RECURSIVE ISqrt(_, _, _)
ISqrt(n, lo, hi) ==
    IF lo >= hi THEN lo
    ELSE LET mid == (lo + hi + 1) \div 2
         IN  IF mid * mid <= n THEN ISqrt(n, mid, hi) ELSE ISqrt(n, lo, mid - 1)

\* f32::sqrt, exact on squares of rationals; NaN otherwise
RSqrt(q) ==
    IF IsNaN(q) \/ q[1] < 0 THEN NaN
    ELSE LET n == ISqrt(q[1], 0, 31622)
             d == ISqrt(q[2], 0, 31622)
         IN  IF n * n = q[1] /\ d * d = q[2] THEN <<n, d>> ELSE NaN

----------------------------------------------------------------------------
(* na::Vector2<f32> / na::Point2<f32>: a pair <<x, y>> of rationals *)

Vector2(x, y) == <<x, y>>
ZeroVec == <<Zero, Zero>>
VecIsNaN(v) == IsNaN(v[1]) \/ IsNaN(v[2])

VAdd(u, v) == <<RAdd(u[1], v[1]), RAdd(u[2], v[2])>>
VSub(u, v) == <<RSub(u[1], v[1]), RSub(u[2], v[2])>>
VNeg(v) == <<RNeg(v[1]), RNeg(v[2])>>
VScale(v, k) == <<RMul(v[1], k), RMul(v[2], k)>>
VDivS(v, k) == <<RDiv(v[1], k), RDiv(v[2], k)>>
Dot(u, v) == RAdd(RMul(u[1], v[1]), RMul(u[2], v[2]))
NormSquared(v) == Dot(v, v)
Norm(v) == RSqrt(NormSquared(v))
Normalize(v) == VDivS(v, Norm(v))
DistanceSquared(p, q) == NormSquared(VSub(p, q))

----------------------------------------------------------------------------
(* Constants of galaxy.rs and game.rs *)

CLASS_O == Rat(60, 1)
CLASS_B == Rat(18, 1)
CLASS_A == Rat(16, 5)
CLASS_F == Rat(17, 10)
CLASS_G == Rat(11, 10)
CLASS_K == Rat(4, 5)
CLASS_M == Rat(3, 10)

G == Rat(1000, 1)
SUN_MAX_STARTING_VELOCITY == Rat(100, 1)
SUN_MIN_MASS == CLASS_M
SUN_MAX_MASS == CLASS_O
SUN_DENSITY == Rat(1, 500)
PI == Rat(355, 113)          \* std::f32::consts::PI, to 7 digits

TRACE_LEN == 600
TRACE_EVERY == 10            \* the literal of `a.trace_cnt == 10`

SCREEN_H == Rat(800, 1)
DESIRED_FPS == 60

----------------------------------------------------------------------------
(* Helpers of galaxy.rs *)

color_from_mass(mass) ==
    IF RLt(mass, CLASS_M) THEN "fbc886ff"
    ELSE IF RLt(mass, CLASS_K) THEN "ffd870ff"
    ELSE IF RLt(mass, CLASS_G) THEN "fdf9b3ff"
    ELSE IF RLt(mass, CLASS_F) THEN "f9fae7ff"
    ELSE IF RLt(mass, CLASS_A) THEN "dadde6ff"
    ELSE IF RLt(mass, CLASS_B) THEN "aabfffff"
    ELSE IF RLt(mass, CLASS_O) THEN "9bb0ffff"
    ELSE "ffffffff"

\* sin and cos of an angle given in turns (angle / 2 PI), on the quarter turns
SinTurns(t) ==
    IF t = Rat(0, 1) THEN Zero
    ELSE IF t = Rat(1, 4) THEN One
    ELSE IF t = Rat(1, 2) THEN Zero
    ELSE IF t = Rat(3, 4) THEN RNeg(One)
    ELSE NaN

CosTurns(t) ==
    IF t = Rat(0, 1) THEN One
    ELSE IF t = Rat(1, 4) THEN Zero
    ELSE IF t = Rat(1, 2) THEN RNeg(One)
    ELSE IF t = Rat(3, 4) THEN Zero
    ELSE NaN

\* the angle is carried in turns: vec_from_angle(2 PI t)
vec_from_angle(t) == Vector2(SinTurns(t), CosTurns(t))

vec_from_points(from, to) == VSub(to, from)

\* ra, rm: the two results of rand::random::<f32>(), in [0, 1)
random_vec(max_magnitude, ra, rm) ==
    LET angle == ra                       \* ra * 2 PI, in turns
        mag == RMul(rm, max_magnitude)
    IN  VScale(vec_from_angle(angle), mag)

\* f32::cbrt rounded down to a multiple of 1/RadiusScale
RECURSIVE CbrtSearch(_, _, _)
CbrtSearch(q, lo, hi) ==
    IF lo >= hi THEN lo
    ELSE LET mid == (lo + hi + 1) \div 2
         IN  IF FracLess(q[1], q[2], mid * mid * mid, RadiusScale * RadiusScale * RadiusScale)
             THEN CbrtSearch(q, lo, mid - 1)
             ELSE CbrtSearch(q, mid, hi)

RCbrt(q) == IF IsNaN(q) \/ q[1] < 0 THEN NaN ELSE Rat(CbrtSearch(q, 0, 1000), RadiusScale)

RECURSIVE SumVec(_, _)
SumVec(f, n) == IF n = 0 THEN ZeroVec ELSE VAdd(SumVec(f, n - 1), f[n])

RECURSIVE SumRat(_, _)
SumRat(f, n) == IF n = 0 THEN Zero ELSE RAdd(SumRat(f, n - 1), f[n])

total_momentum(bodys) ==
    SumVec([i \in 1..Len(bodys) |-> VScale(bodys[i].velocity, bodys[i].mass)], Len(bodys))

total_mass(bodys) ==
    SumRat([i \in 1..Len(bodys) |-> bodys[i].mass], Len(bodys))

----------------------------------------------------------------------------
(* create_suns.  rnd[i] holds the six results of rand::random for body i, in  *)
(* call order: pow (the value of random::<f32>().powf(10.0)), id, pos_angle, *)
(* pos_mag, vel_angle, vel_mag.                                              *)

new_sun(galaxy_radius, r) ==
    LET m == RAdd(SUN_MIN_MASS, RMul(r.pow, RSub(SUN_MAX_MASS, SUN_MIN_MASS)))
    IN  [tag |-> "Sun",
         id |-> r.id,
         pos |-> VAdd(ZeroVec, random_vec(galaxy_radius, r.pos_angle, r.pos_mag)),
         trace |-> <<>>,
         trace_cnt |-> 0,
         velocity |-> random_vec(SUN_MAX_STARTING_VELOCITY, r.vel_angle, r.vel_mag),
         new_velocity |-> Vector2(Zero, Zero),
         mass |-> m,
         radius |-> RCbrt(RDiv(RMul(RDiv(m, SUN_DENSITY), Rat(3, 4)), PI)),
         color |-> color_from_mass(m)]

\* faulty variant: the total momentum is subtracted without dividing by the total mass
create_suns_no_div(num, galaxy_radius, rnd) ==
    LET suns == [i \in 1..num |-> new_sun(galaxy_radius, rnd[i])]
        total_velocity == total_momentum(suns)
    IN  [i \in 1..num |->
            [suns[i] EXCEPT !.velocity = VSub(suns[i].velocity, total_velocity)]]

create_suns(num, galaxy_radius, rnd) ==
    LET suns == [i \in 1..num |-> new_sun(galaxy_radius, rnd[i])]
        total_velocity == VDivS(total_momentum(suns), total_mass(suns))
    IN  [i \in 1..num |->
            [suns[i] EXCEPT !.velocity = VSub(suns[i].velocity, total_velocity)]]

----------------------------------------------------------------------------
(* elastic_collision *)

\* faulty variant: the factor 2.0 is missing
v_afterwards_half(this, that) ==
    LET d == VSub(this.pos, that.pos)
        k == RDiv(RMul(RDiv(that.mass, RAdd(this.mass, that.mass)),
                       Dot(VSub(this.velocity, that.velocity), d)),
                  NormSquared(d))
    IN  VSub(this.velocity, VScale(d, k))

\* faulty variant: the body's own mass in place of the other body's
v_afterwards_own_mass(this, that) ==
    LET d == VSub(this.pos, that.pos)
        k == RDiv(RMul(RDiv(RMul(Rat(2, 1), this.mass), RAdd(this.mass, that.mass)),
                       Dot(VSub(this.velocity, that.velocity), d)),
                  NormSquared(d))
    IN  VSub(this.velocity, VScale(d, k))

v_afterwards(this, that) ==
    LET d == VSub(this.pos, that.pos)
        k == RDiv(RMul(RDiv(RMul(Rat(2, 1), that.mass), RAdd(this.mass, that.mass)),
                       Dot(VSub(this.velocity, that.velocity), d)),
                  NormSquared(d))
    IN  VSub(this.velocity, VScale(d, k))

elastic_collision(a1, a2) == <<v_afterwards(a1, a2), v_afterwards(a2, a1)>>

----------------------------------------------------------------------------
(* update_vel_and_pos *)

\* (0..n).tuple_combinations(): <<a, b>> with a < b, in lexicographic order
RECURSIVE tuple_combinations_from(_, _)
tuple_combinations_from(a, n) ==
    IF a >= n THEN <<>>
    ELSE [k \in 1..(n - a) |-> <<a, a + k>>] \o tuple_combinations_from(a + 1, n)

tuple_combinations(n) == tuple_combinations_from(1, n)

\* dist_squ < touching_dist_squ for the actors a and b
Touching(a, b) ==
    LET rsum == RAdd(a.radius, b.radius)
    IN  RLt(DistanceSquared(a.pos, b.pos), RMul(rsum, rsum))

\* the gravity branch: <<delta_vg_a, delta_vg_b>>
GravityDeltas(a, b) ==
    LET r_unit_vec == Normalize(vec_from_points(a.pos, b.pos))
        dist_squ == DistanceSquared(a.pos, b.pos)
        fg == VScale(r_unit_vec, RDiv(RMul(RMul(G, a.mass), b.mass), dist_squ))
    IN  <<VDivS(fg, a.mass), VDivS(VNeg(fg), b.mass)>>

\* faulty variant: a collision result is added to the pending velocity
PairVel_sum(a, b) ==
    IF Touching(a, b)
    THEN LET v == elastic_collision(a, b)
         IN  <<VAdd(a.new_velocity, v[1]), VAdd(b.new_velocity, v[2])>>
    ELSE LET dv == GravityDeltas(a, b)
         IN  <<VAdd(a.new_velocity, dv[1]), VAdd(b.new_velocity, dv[2])>>

\* the new_velocity of a and of b after the iteration for the pair (a, b)
PairVel(a, b) ==
    IF Touching(a, b)
    THEN elastic_collision(a, b)
    ELSE LET dv == GravityDeltas(a, b)
         IN  <<VAdd(a.new_velocity, dv[1]), VAdd(b.new_velocity, dv[2])>>

\* faulty variant: the iteration also writes the live velocity, as main.rs:114-122 does
PairBodyLive(acts, a, b) ==
    LET nv == PairVel(acts[a], acts[b])
    IN  [acts EXCEPT ![a].new_velocity = nv[1], ![b].new_velocity = nv[2],
                     ![a].velocity = nv[1], ![b].velocity = nv[2]]

\* the body of the first loop, for the pair (a, b)
PairBody(acts, a, b) ==
    LET nv == PairVel(acts[a], acts[b])
    IN  [acts EXCEPT ![a].new_velocity = nv[1], ![b].new_velocity = nv[2]]

\* the first loop from its k-th pair on
RECURSIVE PairLoop(_, _, _)
PairLoop(acts, ps, k) ==
    IF k > Len(ps) THEN acts
    ELSE PairLoop(PairBody(acts, ps[k][1], ps[k][2]), ps, k + 1)

\* faulty variant: pop_front in place of pop_back
TraceStep_pop_front(a) ==
    IF a.trace_cnt + 1 = TRACE_EVERY
    THEN LET pushed == <<a.pos>> \o a.trace
         IN  [a EXCEPT !.trace_cnt = 0,
                       !.trace = IF Len(pushed) >= TRACE_LEN
                                 THEN SubSeq(pushed, 2, Len(pushed))
                                 ELSE pushed]
    ELSE [a EXCEPT !.trace_cnt = a.trace_cnt + 1]

\* the trace update of one actor whose pos is already advanced
TraceStep(a) ==
    IF a.trace_cnt + 1 = TRACE_EVERY
    THEN LET pushed == <<a.pos>> \o a.trace
         IN  [a EXCEPT !.trace_cnt = 0,
                       !.trace = IF Len(pushed) >= TRACE_LEN
                                 THEN SubSeq(pushed, 1, Len(pushed) - 1)
                                 ELSE pushed]
    ELSE [a EXCEPT !.trace_cnt = a.trace_cnt + 1]

\* faulty variant: pos is advanced by the velocity of the call before
CommitBody_stale(a, dt) ==
    LET v == a.new_velocity
    IN  TraceStep([a EXCEPT !.velocity = v, !.pos = VAdd(a.pos, VScale(a.velocity, dt))])

\* the body of the second loop
CommitBody(a, dt) ==
    LET v == a.new_velocity
    IN  TraceStep([a EXCEPT !.velocity = v, !.pos = VAdd(a.pos, VScale(v, dt))])

CommitLoop(acts, dt) == [i \in 1..Len(acts) |-> CommitBody(acts[i], dt)]

\* faulty variant: new_velocity is zeroed at the start of the call
update_vel_and_pos_reset(acts, dt) ==
    LET zeroed == [i \in 1..Len(acts) |-> [acts[i] EXCEPT !.new_velocity = ZeroVec]]
    IN  CommitLoop(PairLoop(zeroed, tuple_combinations(Len(acts)), 1), dt)

\* faulty variant: the dark-matter pull of main.rs:126-128 (G_DARK = 0.01) before the commit
update_vel_and_pos_dark(acts, dt) ==
    LET paired == PairLoop(acts, tuple_combinations(Len(acts)), 1)
        pulled == [i \in 1..Len(acts) |->
                     [paired[i] EXCEPT !.new_velocity =
                         VAdd(@, VScale(vec_from_points(paired[i].pos, ZeroVec),
                                        Rat(1, 100)))]]
    IN  CommitLoop(pulled, dt)

update_vel_and_pos(acts, dt) ==
    CommitLoop(PairLoop(acts, tuple_combinations(Len(acts)), 1), dt)

\* every pos, velocity and new_velocity is a value the model holds exactly
Representable(acts) ==
    \A i \in 1..Len(acts) :
        ~VecIsNaN(acts[i].pos) /\ ~VecIsNaN(acts[i].velocity)
        /\ ~VecIsNaN(acts[i].new_velocity)

----------------------------------------------------------------------------
(* The draws of rand::random explored *)

Draw(pw, id, pa, pm, va, vm) ==
    [pow |-> pw, id |-> id, pos_angle |-> pa, pos_mag |-> pm,
     vel_angle |-> va, vel_mag |-> vm]

\* mass and velocity draws: (pow, vel_angle, vel_mag)
MassVelDraws ==
    {<<Rat(0, 1), Rat(1, 4), Rat(0, 1)>>,
     <<Rat(0, 1), Rat(1, 4), Rat(3, 100)>>,
     <<Rat(7, 597), Rat(0, 1), Rat(3, 100)>>}

\* position draws: (pos_angle, pos_mag)
PosDraws ==
    {<<Rat(1, 4), Rat(1, 40)>>, <<Rat(3, 4), Rat(1, 40)>>, <<Rat(1, 4), Rat(1, 8)>>}

Draws == {Draw(mv[1], 1, p[1], p[2], mv[2], mv[3]) : mv \in MassVelDraws, p \in PosDraws}

\* draws that differ in the id and in the distance from the origin only
IdDraws ==
    {Draw(Rat(0, 1), id, Rat(1, 4), pm, Rat(1, 4), Rat(0, 1)) :
        id \in 1..MaxIdDraw, pm \in {Rat(1, 40), Rat(1, 8)}}

\* dt = speed / DESIRED_FPS (game.rs:137), speed 1.0 or doubled once
Dts == {Rat(1, DESIRED_FPS), Rat(2, DESIRED_FPS)}

\* MainState::new (game.rs:115-131)
NewState(num, rnd) ==
    /\ actors = create_suns(num, RMul(RDiv(SCREEN_H, Rat(20, 1)), Rat(num, 1)), rnd)
    /\ ticks = 0
    /\ snapshot = actors
    /\ pc = "idle"
    /\ pair = 1
    /\ dtv = Zero
    /\ vafter = <<>>

InitWith(D, maxNum) ==
    \E num \in 0..maxNum : \E rnd \in [1..num -> D] : NewState(num, rnd)

Init == InitWith(Draws, MaxBodies)

\* one call update_vel_and_pos(&mut self.suns, dt) (game.rs:140)
Tick(dt, maxTicks) ==
    LET nxt == update_vel_and_pos(actors, dt)
    IN  /\ pc = "idle"
        /\ ticks < maxTicks
        /\ Representable(nxt)
        /\ actors' = nxt
        /\ snapshot' = actors
        /\ ticks' = ticks + 1
        /\ dtv' = dt
        /\ UNCHANGED <<pc, pair, vafter>>

Next == \E dt \in Dts : Tick(dt, MaxTicks)

Spec == Init /\ [][Next]_vars

InitIds == InitWith(IdDraws, MaxBodies)

SpecIds == InitIds /\ [][Next]_vars

----------------------------------------------------------------------------
(* The same call, one loop iteration at a time *)

BeginTick(dt) ==
    /\ pc = "idle"
    /\ ticks < MaxTicks
    /\ Representable(update_vel_and_pos(actors, dt))
    /\ pc' = "pairs"
    /\ pair' = 1
    /\ snapshot' = actors
    /\ dtv' = dt
    /\ UNCHANGED <<actors, ticks, vafter>>

PairStep ==
    LET ps == tuple_combinations(Len(actors))
    IN  /\ pc = "pairs"
        /\ pair <= Len(ps)
        /\ actors' = PairBody(actors, ps[pair][1], ps[pair][2])
        /\ pair' = pair + 1
        /\ UNCHANGED <<ticks, snapshot, pc, dtv, vafter>>

CommitTick ==
    /\ pc = "pairs"
    /\ pair > Len(tuple_combinations(Len(actors)))
    /\ actors' = CommitLoop(actors, dtv)
    /\ pc' = "idle"
    /\ ticks' = ticks + 1
    /\ UNCHANGED <<snapshot, pair, dtv, vafter>>

NextStep == (\E dt \in Dts : BeginTick(dt)) \/ PairStep \/ CommitTick

SpecStep == Init /\ [][NextStep]_vars

----------------------------------------------------------------------------
(* elastic_collision called on two actors built field by field, as the     *)
(* tests of galaxy.rs do (galaxy.rs:166-227)                               *)

TestActor(id, pos, velocity, mass) ==
    [tag |-> "Sun", id |-> id, pos |-> pos, trace |-> <<>>, trace_cnt |-> 0,
     radius |-> Rat(100, 1), velocity |-> velocity,
     new_velocity |-> Vector2(Zero, Zero), mass |-> mass, color |-> "00000000"]

IntVec(x, y) == Vector2(Rat(x, 1), Rat(y, 1))

TestMasses == {Rat(10, 1), Rat(1, 1), Rat(3, 10)}
TestPosB == {IntVec(200, 0), IntVec(-7, 0), IntVec(3, 4), IntVec(0, -5)}
TestVelA == {IntVec(10, 0), IntVec(0, 0), IntVec(-4, 0), IntVec(1, -2)}
TestVelB == {IntVec(0, 0), IntVec(-10, 0), IntVec(6, 0), IntVec(3, 1)}

InitCollision ==
    /\ \E ma \in TestMasses, mb \in TestMasses, pb \in TestPosB,
          va \in TestVelA, vb \in TestVelB :
         actors = <<TestActor(1, IntVec(0, 0), va, ma), TestActor(2, pb, vb, mb)>>
    /\ ticks = 0
    /\ snapshot = actors
    /\ pc = "idle"
    /\ pair = 1
    /\ dtv = Zero
    /\ vafter = <<>>

\* let (v1, v2) = elastic_collision(&mut a, &mut b)
Collide ==
    /\ vafter = <<>>
    /\ vafter' = elastic_collision(actors[1], actors[2])
    /\ UNCHANGED <<actors, ticks, snapshot, pc, pair, dtv>>

NextCollision == Collide

SpecCollision == InitCollision /\ [][NextCollision]_vars

----------------------------------------------------------------------------
(* Long runs, for the trace buffer: one sun at rest, and three overlapping *)
(* suns of equal mass on the x-axis, which drift together                  *)

TraceRuns ==
    {<<Draw(Rat(0, 1), 1, Rat(1, 4), Rat(1, 40), Rat(1, 4), Rat(3, 100))>>,
     <<Draw(Rat(0, 1), 1, Rat(1, 4), Rat(1, 40), Rat(1, 4), Rat(3, 100)),
       Draw(Rat(0, 1), 2, Rat(3, 4), Rat(1, 40), Rat(1, 4), Rat(0, 1)),
       Draw(Rat(0, 1), 3, Rat(1, 4), Rat(0, 1), Rat(1, 4), Rat(0, 1))>>}

MaxTicksTrace == TRACE_LEN * TRACE_EVERY + ExtraTicks

InitTrace == \E rnd \in TraceRuns : NewState(Len(rnd), rnd)

NextTrace == Tick(Rat(1, DESIRED_FPS), MaxTicksTrace)

SpecTrace == InitTrace /\ [][NextTrace]_vars

----------------------------------------------------------------------------
(* Crowded starts, one loop iteration at a time: suns at the origin and at  *)
(* the smallest distance on either side of it, so that a sun can overlap    *)
(* two others                                                              *)

CrowdedPosDraws ==
    {<<Rat(1, 4), Rat(1, 40)>>, <<Rat(3, 4), Rat(1, 40)>>, <<Rat(1, 4), Rat(0, 1)>>}

CrowdedMassVelDraws ==
    {<<Rat(0, 1), Rat(1, 4), Rat(3, 100)>>, <<Rat(7, 597), Rat(0, 1), Rat(3, 100)>>}

CrowdedDraws ==
    {Draw(mv[1], 1, p[1], p[2], mv[2], mv[3]) :
        mv \in CrowdedMassVelDraws, p \in CrowdedPosDraws}

InitCrowded == InitWith(CrowdedDraws, MaxBodies)

SpecCrowded == InitCrowded /\ [][NextStep]_vars

----------------------------------------------------------------------------
(* Properties *)

Bodies == 1..Len(actors)

\* the fields of an actor that an iteration of the pair loop reads
PairReads(a) == <<a.pos, a.velocity, a.mass, a.radius>>

\* C1: while the pair loop of update_vel_and_pos runs, every actor's pos and
\* velocity (and mass and radius) are those the call started with: whatever
\* earlier pairs wrote, a later pair reads the pre-tick snapshot.
C1_PairsReadSnapshot ==
    pc = "pairs" =>
        \A i \in Bodies : PairReads(actors[i]) = PairReads(snapshot[i])

\* C1 witness: inside the pair loop, an earlier pair has written a pending
\* velocity and a later pair is still to be processed.
C1_Witness ==
    /\ pc = "pairs"
    /\ pair > 1
    /\ pair <= Len(tuple_combinations(Len(actors)))
    /\ \E i \in Bodies : actors[i].new_velocity # snapshot[i].new_velocity

\* body i overlaps some other body of acts
Overlaps(acts, i) ==
    \E j \in 1..Len(acts) :
        j # i /\ Touching(acts[IF i < j THEN i ELSE j], acts[IF i < j THEN j ELSE i])

\* acc plus the gravity deltas body i gets from the bodies j, j + 1, ...
RECURSIVE GravityFrom(_, _, _, _)
GravityFrom(acts, i, j, acc) ==
    IF j > Len(acts) THEN acc
    ELSE IF j = i THEN GravityFrom(acts, i, j + 1, acc)
    ELSE GravityFrom(acts, i, j + 1,
            VAdd(acc, IF i < j THEN GravityDeltas(acts[i], acts[j])[1]
                               ELSE GravityDeltas(acts[j], acts[i])[2]))

PendingPlusGravity(acts, i) == GravityFrom(acts, i, 1, acts[i].new_velocity)

\* C2 as stated: every call of update_vel_and_pos starts with every pending
\* velocity at zero.
C2_PendingZeroAtStart ==
    ticks >= 1 => \A i \in Bodies : snapshot[i].new_velocity = ZeroVec

\* C2 amended: new_velocity is zero at the start of the first call only; every
\* later call starts with new_velocity equal to the velocity committed by the
\* call before, and for a body that overlaps no other the velocity a call
\* commits is that pending velocity plus the gravity deltas of the call.
C2_PendingCarriesOver ==
    ticks >= 1 =>
        \A i \in Bodies :
            /\ ticks = 1 => snapshot[i].new_velocity = ZeroVec
            /\ ticks > 1 => snapshot[i].new_velocity = snapshot[i].velocity
            /\ ~Overlaps(snapshot, i) =>
                  actors[i].velocity = PendingPlusGravity(snapshot, i)

\* C2 witness: a second call has run, on a body that overlaps no other, started
\* with a non-zero pending velocity and got gravity on top of it.
C2_Witness ==
    /\ ticks >= 2
    /\ \E i \in Bodies :
          /\ ~Overlaps(snapshot, i)
          /\ snapshot[i].new_velocity # ZeroVec
          /\ actors[i].velocity # snapshot[i].new_velocity

\* C3: a call of update_vel_and_pos leaves the total momentum as it was
\* (wherever the model holds both sums exactly).
C3_MomentumConserved ==
    (ticks >= 1 /\ ~VecIsNaN(total_momentum(actors))
                /\ ~VecIsNaN(total_momentum(snapshot)))
        => total_momentum(actors) = total_momentum(snapshot)

\* C4: create_suns(n, r) with n >= 1 returns bodies of total momentum zero.
C4_ZeroMomentumAtSpawn ==
    (ticks = 0 /\ Len(actors) >= 1) => total_momentum(actors) = ZeroVec

\* C4 witness: freshly created bodies of different masses, one of them moving.
C4_Witness ==
    /\ ticks = 0
    /\ \E i, j \in Bodies :
          /\ actors[i].mass # actors[j].mass
          /\ actors[i].velocity # ZeroVec
          /\ actors[i].velocity[2] # Zero

\* what a call does to the trace of body i: on a sampling call (the counter
\* is back at 0) the body's new position is put in front and nothing or the
\* entry at the back is dropped; any other call leaves the trace alone
TraceStepOK(i) ==
    LET old == actors[i].trace
        new == actors'[i].trace
        front == <<actors'[i].pos>>
    IN  IF actors'[i].trace_cnt = 0
        THEN \/ new = front \o old
             \/ Len(old) >= 1 /\ new = front \o SubSeq(old, 1, Len(old) - 1)
        ELSE new = old

\* C5: a trace never holds more than TRACE_LEN entries; a sampling call adds
\* the newest position at the front and keeps the others in order, and the only
\* entry a call ever removes is the one at the back (the oldest).
C5_TraceNewestFirst ==
    /\ [](\A i \in Bodies : Len(actors[i].trace) <= TRACE_LEN)
    /\ [][\A i \in Bodies : TraceStepOK(i)]_vars

\* C5 witness: a moving body past its first eviction: the trace is as long as
\* it gets and its two newest entries differ.
C5_Witness ==
    /\ ticks >= TRACE_LEN * TRACE_EVERY + TRACE_EVERY
    /\ \E i \in Bodies :
          /\ Len(actors[i].trace) = TRACE_LEN - 1
          /\ actors[i].trace[1] # actors[i].trace[2]
          /\ actors[i].trace[1] = actors[i].pos

\* C6: from TRACE_LEN * TRACE_EVERY calls on, every trace holds exactly
\* TRACE_LEN entries.
C6_TraceFull ==
    ticks >= TRACE_LEN * TRACE_EVERY =>
        \A i \in Bodies : Len(actors[i].trace) = TRACE_LEN

\* C7: no two bodies have the same id, at creation and after any call.
C7_UniqueIds ==
    \A i, j \in Bodies : i # j => actors[i].id # actors[j].id

C9_EqualMassExchange ==
    (/\ vafter # <<>>
     /\ actors[1].mass = actors[2].mass
     /\ actors[1].pos[2] = actors[2].pos[2]
     /\ actors[1].pos[1] # actors[2].pos[1]
     /\ actors[1].velocity[2] = Zero
     /\ actors[2].velocity[2] = Zero)
        => vafter = <<actors[2].velocity, actors[1].velocity>>

\* C9 witness: the scenario of test_collision_central_one_moving, resolved.
C9_Witness ==
    /\ actors[1].mass = Rat(10, 1) /\ actors[2].mass = Rat(10, 1)
    /\ actors[1].pos = IntVec(0, 0) /\ actors[2].pos = IntVec(200, 0)
    /\ actors[1].velocity = IntVec(10, 0) /\ actors[2].velocity = IntVec(0, 0)
    /\ vafter = <<IntVec(0, 0), IntVec(10, 0)>>

\* m_a |v_a|^2 + m_b |v_b|^2
Energy2(ma, va, mb, vb) ==
    RAdd(RMul(ma, NormSquared(va)), RMul(mb, NormSquared(vb)))

\* C10: the velocities elastic_collision returns have the kinetic energy the
\* pair had, and the call leaves both actors as they were.
C10_EnergyConserved ==
    vafter # <<>> =>
        /\ ~IsNaN(Energy2(actors[1].mass, vafter[1], actors[2].mass, vafter[2]))
        /\ Energy2(actors[1].mass, vafter[1], actors[2].mass, vafter[2])
             = Energy2(actors[1].mass, actors[1].velocity,
                       actors[2].mass, actors[2].velocity)
        /\ actors = snapshot

\* C10 witness: different masses, positions off the axes, and a collision that
\* changed both velocities.
C10_Witness ==
    /\ vafter # <<>>
    /\ actors[1].mass # actors[2].mass
    /\ actors[2].pos = IntVec(3, 4)
    /\ vafter[1] # actors[1].velocity
    /\ vafter[2] # actors[2].velocity
    /\ vafter # <<actors[2].velocity, actors[1].velocity>>

\* the place of the pair (a, b), a < b, among the pairs of n bodies in
\* ascending order (0,1), (0,2), ..., (1,2), ...
PairIndex(a, b, n) == (a - 1) * n - (a * (a - 1)) \div 2 + (b - a)

\* the pair of i and j has been processed when the loop stands at pair k
Processed(acts, i, j, k) ==
    /\ j # i
    /\ PairIndex(IF i < j THEN i ELSE j, IF i < j THEN j ELSE i, Len(acts)) < k

\* the bodies that overlap body i
Hits(acts, i) ==
    {j \in 1..Len(acts) :
        j # i /\ Touching(acts[IF i < j THEN i ELSE j], acts[IF i < j THEN j ELSE i])}

\* what elastic_collision gives body i for its pair with j
CollisionOn(acts, i, j) ==
    IF i < j THEN elastic_collision(acts[i], acts[j])[1]
             ELSE elastic_collision(acts[j], acts[i])[2]

\* acc plus the gravity deltas body i gets from those of j, j + 1, ... whose
\* pair with i has been processed when the loop stands at pair k
RECURSIVE GravityUpTo(_, _, _, _, _)
GravityUpTo(acts, i, j, k, acc) ==
    IF j > Len(acts) THEN acc
    ELSE IF ~Processed(acts, i, j, k) THEN GravityUpTo(acts, i, j + 1, k, acc)
    ELSE GravityUpTo(acts, i, j + 1, k,
            VAdd(acc, IF i < j THEN GravityDeltas(acts[i], acts[j])[1]
                               ELSE GravityDeltas(acts[j], acts[i])[2]))

SetMax(S) == CHOOSE x \in S : \A y \in S : y <= x
SetMin(S) == CHOOSE x \in S : \A y \in S : x <= y

\* the pending velocity of body i when the loop stands at pair k, if pairs
\* are taken in ascending order and a collision result replaces what is there
ExpectedPending(acts, i, k) ==
    LET done == {j \in Hits(acts, i) : Processed(acts, i, j, k)}
    IN  IF done = {}
        THEN GravityUpTo(acts, i, 1, k, acts[i].new_velocity)
        ELSE GravityUpTo(acts, i, SetMax(done) + 1, k,
                         CollisionOn(acts, i, SetMax(done)))

\* C11: pairs are processed in ascending pair order, and the pending velocity
\* of a body that overlaps others is the collision result of the last
\* overlapping pair processed so far (plus the gravity of the pairs after it):
\* the result of an earlier overlapping pair is replaced, not added to.
C11_LastCollisionWins ==
    (pc = "pairs" \/ ticks >= 1) =>
        \A i \in Bodies :
            actors[i].new_velocity =
                ExpectedPending(snapshot, i,
                    IF pc = "pairs" THEN pair
                    ELSE Len(tuple_combinations(Len(actors))) + 1)

\* C11 witness: a call has run in which a body overlapped two others, the two
\* collisions gave it different results, and it holds the later one.
C11_Witness ==
    /\ pc = "idle"
    /\ ticks >= 1
    /\ \E i \in Bodies :
          /\ Cardinality(Hits(snapshot, i)) >= 2
          /\ CollisionOn(snapshot, i, SetMin(Hits(snapshot, i))) # ZeroVec
          /\ CollisionOn(snapshot, i, SetMin(Hits(snapshot, i)))
                # CollisionOn(snapshot, i, SetMax(Hits(snapshot, i)))
          /\ actors[i].new_velocity
                = CollisionOn(snapshot, i, SetMax(Hits(snapshot, i)))

\* C12: when a call of update_vel_and_pos completes, every body's velocity is
\* the pending velocity the pair loop left, new_velocity is left as it is, and
\* pos has moved by that committed velocity times dt; so after every completed
\* call velocity and new_velocity are equal.
C12_CommitCopiesPending ==
    /\ []((pc = "idle" /\ ticks >= 1) =>
            \A i \in Bodies :
                /\ actors[i].velocity = actors[i].new_velocity
                /\ actors[i].pos =
                      VAdd(snapshot[i].pos, VScale(actors[i].velocity, dtv)))
    /\ [][(pc = "pairs" /\ pc' = "idle") =>
            \A i \in Bodies :
                /\ actors'[i].velocity = actors[i].new_velocity
                /\ actors'[i].new_velocity = actors[i].new_velocity
                /\ actors'[i].pos =
                      VAdd(actors[i].pos, VScale(actors'[i].velocity, dtv))]_vars

\* C12 witness: the first call after create_suns has completed on a body whose
\* velocity and new_velocity differed before it (new_velocity was zero), and
\* the body has moved by its non-zero committed velocity times dt.
C12_Witness ==
    /\ pc = "idle"
    /\ ticks = 1
    /\ \E i \in Bodies :
          /\ snapshot[i].new_velocity = ZeroVec
          /\ snapshot[i].velocity # snapshot[i].new_velocity
          /\ actors[i].velocity # ZeroVec
          /\ actors[i].velocity # snapshot[i].velocity
          /\ actors[i].velocity = actors[i].new_velocity
          /\ actors[i].pos # snapshot[i].pos
          /\ actors[i].pos = VAdd(snapshot[i].pos, VScale(actors[i].velocity, dtv))

====
